---------------------------- MODULE Spec2Model ----------------------------
(***************************************************************************)
(* CShader: the shader-compilation cache of DX11Rendering2DDemo.           *)
(*                                                                         *)
(* One CShader object is modelled.  Its fields are the variables m_*; the  *)
(* D3DCompile entry point is an environment that either succeeds with a    *)
(* fresh blob or fails.  Strings are TLA+ strings, a const char* is <<s>>  *)
(* (pointer to the characters s) or <<>> (the null pointer), a blob        *)
(* pointer is 0 (null) or the number of the compiler invocation that       *)
(* produced the blob.  The remaining variables record what the caller of   *)
(* the object has done and seen; the object never reads them.              *)
(***************************************************************************)
EXTENDS Integers, Sequences, FiniteSets, TLC

\* ------------------------------------------------------------- bounds
\* At most MaxMacros calls of AddMacro are explored.
MaxMacros == 2
\* At most MaxInvocations calls of D3DCompile are explored.
MaxInvocations == 2

\* ------------------------------------------------------------- inputs
CodeInputs == {"float4 main(){return 0;}"}
EntryPointInputs == {"main"}
NameInputs == {"PsGdiTexturePreprocessor"}
TargetInputs == {"ps_5_0"}
\* The caller passes no compile flag.
Flags1Inputs == {0}
Flags2Inputs == {0}
\* The caller asks for the standard include handler.
IncludeInputs == {"nullptr"}
MacroNames == {"A", "B"}
MacroInputs == [m_name : MacroNames, m_definition : {"1"}]
\* HRESULTs the compiler stub answers with.
HResults == {"S_OK", "E_FAIL"}
\* What ::GetErrorInfo answers: S_OK with an error object, S_FALSE without.
ErrorInfoResults == {"S_OK", "S_FALSE"}
\* The terminator of a C string.
NUL == "NUL"
\* The error blob D3DCompile leaves: none (<<>>) or one whose buffer holds
\* the diagnostic text and its terminator.
ErrorBlobs == {<<>>, <<(<<"syntax", " ", "error", NUL>>)>>}
\* A successful invocation leaves no error blob, and ::GetErrorInfo is
\* called only to build the exception of a failed one.
ErrorBlobsOf(hr) == IF hr = "S_OK" THEN {<<>>} ELSE ErrorBlobs
ErrorInfoResultsOf(hr) == IF hr = "S_OK" THEN {"S_FALSE"} ELSE ErrorInfoResults

\* The null blob pointer (an empty ComPtr).
NULL == 0

VARIABLES
    m_code,                 \* std::string
    m_entry_point,          \* std::string
    m_name,                 \* std::string
    m_target,               \* std::string
    m_macros,               \* std::vector<ShaderMacro>
    m_shader_macros,        \* std::vector<D3D_SHADER_MACRO>
    m_p_include,            \* ID3DInclude*
    m_flags1,               \* UINT
    m_flags2,               \* UINT
    m_is_macro_changed,     \* bool
    m_is_config_changed,    \* bool
    m_p_cached_byte_code,   \* ComPtr<ID3DBlob>
    invocations,            \* number of D3DCompile calls made so far
    lastOp,                 \* kind of the last member function called
    outcome,                \* how the last Compile() ended
    ret,                    \* the blob the last Compile() returned
    d3d_hr,                 \* what D3DCompile answered in the last Compile(), if called
    phase,                  \* "fresh", "clean" or "changed", see Mutated
    macroMutated,           \* AddMacro/DeleteMacro ran since the last Compile()
    rt,                     \* progress of an add*, delete, compile scenario
    rtN,                    \* number of macros added in that scenario
    prePhase,               \* phase when the last call, a Compile(), began
    preOutcome,             \* outcome when the last call, a Compile(), began
    thrown,                 \* <<e>>: the exception e the last call threw, else <<>>
    diag,                   \* the error blob of the invocation that made it throw
    macro_arg               \* <<a>>: the pDefines D3DCompile read in the last call

vars == <<m_code, m_entry_point, m_name, m_target, m_macros, m_shader_macros,
          m_p_include, m_flags1, m_flags2, m_is_macro_changed,
          m_is_config_changed, m_p_cached_byte_code, invocations, lastOp,
          outcome, ret, d3d_hr, phase, macroMutated, rt, rtN, prePhase,
          preOutcome, thrown, diag, macro_arg>>

\* ------------------------------------------------------------- helpers
\* std::string::c_str(): a pointer to the characters of s.
c_str(s) == <<s>>

\* The {NULL, NULL} entry that ends a D3D_SHADER_MACRO array.
Sentinel == [Name |-> <<>>, Definition |-> <<>>]

\* The lambda of std::transform: one ShaderMacro as a D3D_SHADER_MACRO.
ToShaderMacro(current) ==
    [Name |-> c_str(current.m_name), Definition |-> c_str(current.m_definition)]

\* resize(size + 1), transform over the macros, back() = {NULL, NULL}.
ProjectMacros(macros) ==
    [i \in 1..(Len(macros) + 1) |->
        IF i <= Len(macros) THEN ToShaderMacro(macros[i]) ELSE Sentinel]

\* The condition under which Compile() rebuilds m_shader_macros.
RebuildNeeded == m_is_macro_changed /\ m_macros # <<>>

\* SUCCEEDED(hr) as ThrowIfFailed tests it.
Succeeded(hr) == hr = "S_OK"

\* A moved-from ShaderMacro: valid but unspecified; either emptied or left.
MovedFrom(x, emptied) ==
    IF emptied THEN [m_name |-> "", m_definition |-> ""] ELSE x

\* The loop of std::remove_if from the first match on: v[first] receives
\* every later element that does not match; nothing is erased.
RECURSIVE RemoveIfLoop(_, _, _, _, _)
RemoveIfLoop(v, first, i, name, emptied) ==
    IF i > Len(v) THEN v
    ELSE IF v[i].m_name # name
         THEN RemoveIfLoop([v EXCEPT ![first] = v[i],
                                     ![i] = MovedFrom(v[i], emptied)],
                           first + 1, i + 1, name, emptied)
         ELSE RemoveIfLoop(v, first, i + 1, name, emptied)

\* std::find_if: the index of the first element named name, Len+1 if none.
FindIf(v, name) ==
    IF \E i \in 1..Len(v) : v[i].m_name = name
    THEN CHOOSE i \in 1..Len(v) :
            /\ v[i].m_name = name
            /\ \A j \in 1..(i - 1) : v[j].m_name # name
    ELSE Len(v) + 1

\* std::remove_if(begin, end, pred) with its result ignored.
RemoveIf(v, name, emptied) ==
    LET first == FindIf(v, name)
    IN  IF first > Len(v) THEN v
        ELSE RemoveIfLoop(v, first, first + 1, name, emptied)

\* ------------------------------------------------------------- exceptions
\* The characters a char* addresses: those before the first terminator.
RECURSIVE CString(_)
CString(buffer) ==
    IF buffer = <<>> \/ Head(buffer) = NUL THEN <<>>
    ELSE <<Head(buffer)>> \o CString(Tail(buffer))

\* ID3DBlob::GetBufferPointer of a blob <<buffer>>.
GetBufferPointer(blob) == blob[1]

\* The literal handed to ThrowIfFailed in Compile().
CompileFailedMessage == <<"Compile DX shader failed.">>

\* CHResultException(hr, p_message): the base keeps the message; m_hr is
\* assigned the answer of ::GetErrorInfo, which also fills m_p_error.
CHResultException(hr, p_message, error_info) ==
    [runtime_error |-> p_message,
     m_hr |-> error_info,
     m_p_error |-> IF error_info = "S_OK" THEN "IErrorInfo" ELSE "nullptr"]

\* CHResultException::GetHResult.
GetHResult(e) == e.m_hr

\* CDXShaderException(hr, p_error, p_shader_error): m_error starts as
\* p_error and the blob's buffer, read as a C string, is appended.
CDXShaderException(hr, p_error, p_shader_error, error_info) ==
    [base |-> CHResultException(hr, p_error, error_info),
     m_error |-> IF p_shader_error # <<>>
                 THEN p_error \o CString(GetBufferPointer(p_shader_error))
                 ELSE p_error]

\* what() left to the base class: the message std::runtime_error keeps.
what_OfBase(e) == e.base.runtime_error

\* CDXShaderException::what.
what(e) == e.m_error

\* ------------------------------------------------------------- history
\* What the caller has done, kept beside the object to state the contract.
\* phase: "fresh" until a Compile() returns, "clean" once one returned and
\* no mutator ran since, "changed" once a mutator ran after that.
Mutated ==
    /\ lastOp' = "mutator"
    /\ phase' = IF phase = "clean" THEN "changed" ELSE phase
    /\ prePhase' = "-"
    /\ preOutcome' = "-"
    /\ thrown' = <<>>
    /\ diag' = <<>>
    /\ macro_arg' = <<>>

\* A mutator of a field other than the macros.
ScalarMutated ==
    /\ Mutated
    /\ UNCHANGED <<macroMutated, rt, rtN>>

Accessed ==
    /\ lastOp' = "accessor"
    /\ prePhase' = "-"
    /\ preOutcome' = "-"
    /\ thrown' = <<>>
    /\ diag' = <<>>
    /\ macro_arg' = <<>>
    /\ UNCHANGED <<phase, macroMutated, rt, rtN>>

Compiled ==
    /\ lastOp' = "Compile"
    /\ phase' = IF outcome' = "returned" THEN "clean" ELSE phase
    /\ prePhase' = phase
    /\ preOutcome' = outcome
    /\ macroMutated' = FALSE
    /\ rt' = IF rt = "deleted" THEN "compiled" ELSE "off"
    /\ rtN' = IF rt = "deleted" THEN rtN ELSE 0

MacroNamesOf(v) == {v[i].m_name : i \in 1..Len(v)}

\* ------------------------------------------------------------- Init
\* Init with the configuration flag initialised to false.
Init_ConfigClean ==
    /\ m_code = ""
    /\ m_entry_point = ""
    /\ m_name = ""
    /\ m_target = ""
    /\ m_macros = <<>>
    /\ m_shader_macros = <<>>
    /\ m_p_include = "nullptr"
    /\ m_flags1 = 0
    /\ m_flags2 = 0
    /\ m_is_macro_changed = TRUE
    /\ m_is_config_changed = FALSE
    /\ m_p_cached_byte_code = NULL
    /\ invocations = 0
    /\ lastOp = "ctor"
    /\ outcome = "none"
    /\ ret = NULL
    /\ d3d_hr = "none"
    /\ phase = "fresh"
    /\ macroMutated = FALSE
    /\ rt = "adding"
    /\ rtN = 0
    /\ prePhase = "-"
    /\ preOutcome = "-"
    /\ thrown = <<>>
    /\ diag = <<>>
    /\ macro_arg = <<>>

Init ==
    /\ m_code = ""
    /\ m_entry_point = ""
    /\ m_name = ""
    /\ m_target = ""
    /\ m_macros = <<>>
    /\ m_shader_macros = <<>>
    /\ m_p_include = "nullptr"
    /\ m_flags1 = 0
    /\ m_flags2 = 0
    /\ m_is_macro_changed = TRUE
    /\ m_is_config_changed = TRUE
    /\ m_p_cached_byte_code = NULL
    /\ invocations = 0
    /\ lastOp = "ctor"
    /\ outcome = "none"
    /\ ret = NULL
    /\ d3d_hr = "none"
    /\ phase = "fresh"
    /\ macroMutated = FALSE
    /\ rt = "adding"
    /\ rtN = 0
    /\ prePhase = "-"
    /\ preOutcome = "-"
    /\ thrown = <<>>
    /\ diag = <<>>
    /\ macro_arg = <<>>

\* ------------------------------------------------------------- Compile
\* RebuildMacros with the flag cleared inside the if, on a rebuild only.
RebuildMacros_ClearsOnRebuildOnly ==
    /\ m_shader_macros' =
          IF RebuildNeeded THEN ProjectMacros(m_macros) ELSE m_shader_macros
    /\ m_is_macro_changed' = IF RebuildNeeded THEN FALSE ELSE m_is_macro_changed

\* Lines 23-33: the macro array is rebuilt when flagged and the flag cleared.
RebuildMacros ==
    /\ m_shader_macros' =
          IF RebuildNeeded THEN ProjectMacros(m_macros) ELSE m_shader_macros
    /\ m_is_macro_changed' = FALSE

\* CompileConfig with the flag cleared before the result is tested.
CompileConfig_ClearsFlagFirst(hr) ==
    IF m_is_config_changed
    THEN /\ invocations < MaxInvocations
         /\ invocations' = invocations + 1
         /\ m_is_config_changed' = FALSE
         /\ IF Succeeded(hr)
            THEN /\ m_p_cached_byte_code' = invocations + 1
                 /\ outcome' = "returned"
                 /\ ret' = invocations + 1
            ELSE /\ m_p_cached_byte_code' = NULL
                 /\ outcome' = "raised"
                 /\ ret' = NULL
    ELSE /\ outcome' = "returned"
         /\ ret' = m_p_cached_byte_code
         /\ UNCHANGED <<invocations, m_p_cached_byte_code, m_is_config_changed>>

\* Lines 35-56.  &m_p_cached_byte_code releases the held blob before the
\* call; D3DCompile stores a new blob on success only.  ThrowIfFailed
\* leaves the function before the flag is cleared.
CompileConfig(hr) ==
    IF m_is_config_changed
    THEN /\ invocations < MaxInvocations
         /\ invocations' = invocations + 1
         /\ IF Succeeded(hr)
            THEN /\ m_p_cached_byte_code' = invocations + 1
                 /\ m_is_config_changed' = FALSE
                 /\ outcome' = "returned"
                 /\ ret' = invocations + 1
            ELSE /\ m_p_cached_byte_code' = NULL
                 /\ m_is_config_changed' = m_is_config_changed
                 /\ outcome' = "raised"
                 /\ ret' = NULL
    ELSE /\ outcome' = "returned"
         /\ ret' = m_p_cached_byte_code
         /\ UNCHANGED <<invocations, m_p_cached_byte_code, m_is_config_changed>>

\* A pDefines argument: the null pointer, or an array and its entries.
NullDefines == [null |-> TRUE, entries |-> <<>>]

\* What is read through name and definition pointers that may dangle:
\* m_shader_macros keeps the c_str() of strings that AddMacro (on
\* reallocation) and DeleteMacro (on move assignment) may since have moved.
Garbled(array) ==
    [i \in 1..Len(array) |->
        IF array[i] = Sentinel THEN Sentinel
        ELSE [Name |-> <<"?">>, Definition |-> <<"?">>]]

\* The fourth argument of D3DCompile as the compiler reads it, array being
\* m_shader_macros after the rebuild step.  data() of an empty vector is
\* null or not; the strings of an array built from other macros than the
\* current ones are read intact or not.
PassMacros(array) ==
    IF ~m_is_config_changed THEN macro_arg' = <<>>
    ELSE IF m_macros = <<>> THEN macro_arg' = <<NullDefines>>
    ELSE IF array = <<>>
         THEN \E null \in BOOLEAN :
                  macro_arg' = <<[null |-> null, entries |-> <<>>]>>
    ELSE IF array = ProjectMacros(m_macros)
         THEN macro_arg' = <<[null |-> FALSE, entries |-> array]>>
    ELSE \E intact \in BOOLEAN :
             macro_arg' = <<[null |-> FALSE,
                             entries |-> IF intact THEN array
                                         ELSE Garbled(array)]>>

\* What leaves Compile() by exception: ThrowIfFailed builds the
\* CDXShaderException from the HRESULT, the literal and the error blob.
Throw(hr, p_error_message, error_info) ==
    IF m_is_config_changed /\ ~Succeeded(hr)
    THEN /\ thrown' = <<CDXShaderException(hr, CompileFailedMessage,
                                           p_error_message, error_info)>>
         /\ diag' = p_error_message
    ELSE /\ thrown' = <<>>
         /\ diag' = <<>>

Compile(hr, p_error_message, error_info) ==
    /\ RebuildMacros
    /\ CompileConfig(hr)
    /\ PassMacros(m_shader_macros')
    /\ Throw(hr, p_error_message, error_info)
    /\ d3d_hr' = IF m_is_config_changed THEN hr ELSE "none"
    /\ Compiled
    /\ UNCHANGED <<m_code, m_entry_point, m_name, m_target, m_macros,
                   m_p_include, m_flags1, m_flags2>>

\* ------------------------------------------------------------- mutators
\* SetCode that also drops the cached blob.
SetCode_DropsCache(code) ==
    /\ m_is_config_changed' = TRUE
    /\ m_code' = code
    /\ m_p_cached_byte_code' = NULL
    /\ ScalarMutated
    /\ UNCHANGED <<m_entry_point, m_name, m_target, m_macros, m_shader_macros,
                   m_p_include, m_flags1, m_flags2, m_is_macro_changed,
                   invocations, outcome, ret, d3d_hr>>

SetCode(code) ==
    /\ m_is_config_changed' = TRUE
    /\ m_code' = code
    /\ ScalarMutated
    /\ UNCHANGED <<m_entry_point, m_name, m_target, m_macros, m_shader_macros,
                   m_p_include, m_flags1, m_flags2, m_is_macro_changed,
                   m_p_cached_byte_code, invocations, outcome, ret, d3d_hr>>

SetEntryPoint(entry_point) ==
    /\ m_is_config_changed' = TRUE
    /\ m_entry_point' = entry_point
    /\ ScalarMutated
    /\ UNCHANGED <<m_code, m_name, m_target, m_macros, m_shader_macros,
                   m_p_include, m_flags1, m_flags2, m_is_macro_changed,
                   m_p_cached_byte_code, invocations, outcome, ret, d3d_hr>>

SetName(name) ==
    /\ m_is_config_changed' = TRUE
    /\ m_name' = name
    /\ ScalarMutated
    /\ UNCHANGED <<m_code, m_entry_point, m_target, m_macros, m_shader_macros,
                   m_p_include, m_flags1, m_flags2, m_is_macro_changed,
                   m_p_cached_byte_code, invocations, outcome, ret, d3d_hr>>

\* SetTarget that forgets to mark the configuration changed.
SetTarget_KeepsFlag(target) ==
    /\ m_target' = target
    /\ ScalarMutated
    /\ UNCHANGED <<m_code, m_entry_point, m_name, m_macros, m_shader_macros,
                   m_p_include, m_flags1, m_flags2, m_is_macro_changed,
                   m_is_config_changed, m_p_cached_byte_code, invocations,
                   outcome, ret, d3d_hr>>

SetTarget(target) ==
    /\ m_is_config_changed' = TRUE
    /\ m_target' = target
    /\ ScalarMutated
    /\ UNCHANGED <<m_code, m_entry_point, m_name, m_macros, m_shader_macros,
                   m_p_include, m_flags1, m_flags2, m_is_macro_changed,
                   m_p_cached_byte_code, invocations, outcome, ret, d3d_hr>>

AddMacro(macro) ==
    /\ Len(m_macros) < MaxMacros
    /\ m_is_config_changed' = TRUE
    /\ m_macros' = Append(m_macros, macro)
    /\ Mutated
    /\ macroMutated' = TRUE
    /\ rt' = IF rt = "adding" /\ macro.m_name \notin MacroNamesOf(m_macros)
             THEN "adding" ELSE "off"
    /\ rtN' = IF rt' = "adding" THEN rtN + 1 ELSE 0
    /\ UNCHANGED <<m_code, m_entry_point, m_name, m_target, m_shader_macros,
                   m_p_include, m_flags1, m_flags2, m_is_macro_changed,
                   m_p_cached_byte_code, invocations, outcome, ret, d3d_hr>>

DeleteMacro(name) ==
    /\ m_is_config_changed' = TRUE
    /\ \E emptied \in BOOLEAN : m_macros' = RemoveIf(m_macros, name, emptied)
    /\ Mutated
    /\ macroMutated' = TRUE
    /\ rt' = IF rt = "adding" /\ name \in MacroNamesOf(m_macros)
             THEN "deleted" ELSE "off"
    /\ rtN' = IF rt' = "deleted" THEN rtN ELSE 0
    /\ UNCHANGED <<m_code, m_entry_point, m_name, m_target, m_shader_macros,
                   m_p_include, m_flags1, m_flags2, m_is_macro_changed,
                   m_p_cached_byte_code, invocations, outcome, ret, d3d_hr>>

SetFlags1(flags1) ==
    /\ m_is_config_changed' = TRUE
    /\ m_flags1' = flags1
    /\ ScalarMutated
    /\ UNCHANGED <<m_code, m_entry_point, m_name, m_target, m_macros,
                   m_shader_macros, m_p_include, m_flags2, m_is_macro_changed,
                   m_p_cached_byte_code, invocations, outcome, ret, d3d_hr>>

SetFlags2(flags2) ==
    /\ m_is_config_changed' = TRUE
    /\ m_flags2' = flags2
    /\ ScalarMutated
    /\ UNCHANGED <<m_code, m_entry_point, m_name, m_target, m_macros,
                   m_shader_macros, m_p_include, m_flags1, m_is_macro_changed,
                   m_p_cached_byte_code, invocations, outcome, ret, d3d_hr>>

SetInclude(p_indclude) ==
    /\ m_is_config_changed' = TRUE
    /\ m_p_include' = p_indclude
    /\ ScalarMutated
    /\ UNCHANGED <<m_code, m_entry_point, m_name, m_target, m_macros,
                   m_shader_macros, m_flags1, m_flags2, m_is_macro_changed,
                   m_p_cached_byte_code, invocations, outcome, ret, d3d_hr>>

\* ------------------------------------------------------------- accessors
\* The object's fields as a whole.
fields == <<m_code, m_entry_point, m_name, m_target, m_macros, m_shader_macros,
            m_p_include, m_flags1, m_flags2, m_is_macro_changed,
            m_is_config_changed, m_p_cached_byte_code>>

\* GetCode, GetEntryPoint, GetName, GetTarget, GetMacros, GetFlags1 and
\* GetFlags2 return a field and assign nothing.
GetCode ==
    /\ Accessed
    /\ UNCHANGED <<fields, invocations, outcome, ret, d3d_hr>>

GetEntryPoint ==
    /\ Accessed
    /\ UNCHANGED <<fields, invocations, outcome, ret, d3d_hr>>

GetName ==
    /\ Accessed
    /\ UNCHANGED <<fields, invocations, outcome, ret, d3d_hr>>

GetTarget ==
    /\ Accessed
    /\ UNCHANGED <<fields, invocations, outcome, ret, d3d_hr>>

GetMacros ==
    /\ Accessed
    /\ UNCHANGED <<fields, invocations, outcome, ret, d3d_hr>>

GetFlags1 ==
    /\ Accessed
    /\ UNCHANGED <<fields, invocations, outcome, ret, d3d_hr>>

GetFlags2 ==
    /\ Accessed
    /\ UNCHANGED <<fields, invocations, outcome, ret, d3d_hr>>

\* GetInclude assigns the configuration flag before it returns the pointer.
GetInclude ==
    /\ m_is_config_changed' = TRUE
    /\ Accessed
    /\ UNCHANGED <<m_code, m_entry_point, m_name, m_target, m_macros,
                   m_shader_macros, m_p_include, m_flags1, m_flags2,
                   m_is_macro_changed, m_p_cached_byte_code, invocations,
                   outcome, ret, d3d_hr>>

\* ------------------------------------------------------------- Next
Next ==
    \/ \E hr \in HResults :
          \E p_error_message \in ErrorBlobsOf(hr) :
             \E error_info \in ErrorInfoResultsOf(hr) :
                Compile(hr, p_error_message, error_info)
    \/ \E code \in CodeInputs : SetCode(code)
    \/ \E entry_point \in EntryPointInputs : SetEntryPoint(entry_point)
    \/ \E name \in NameInputs : SetName(name)
    \/ \E target \in TargetInputs : SetTarget(target)
    \/ \E macro \in MacroInputs : AddMacro(macro)
    \/ \E name \in MacroNames : DeleteMacro(name)
    \/ \E flags1 \in Flags1Inputs : SetFlags1(flags1)
    \/ \E flags2 \in Flags2Inputs : SetFlags2(flags2)
    \/ \E p_indclude \in IncludeInputs : SetInclude(p_indclude)
    \/ GetCode
    \/ GetEntryPoint
    \/ GetName
    \/ GetTarget
    \/ GetMacros
    \/ GetFlags1
    \/ GetFlags2
    \/ GetInclude

Spec == Init /\ [][Next]_vars

\* ------------------------------------------------------------- claims
\* C1: once a Compile() has returned and no mutator was called since, every
\* further Compile() makes no compiler invocation and returns the artifact
\* the previous call returned.
C1_CompileIdempotent ==
    [][(lastOp' = "Compile" /\ phase = "clean") =>
          /\ invocations' = invocations
          /\ outcome' = "returned"
          /\ ret' = ret
          /\ m_p_cached_byte_code' = m_p_cached_byte_code]_vars

\* C2: a Compile() that follows a mutator called after a successful
\* Compile() invokes the compiler exactly once, and when it returns it
\* returns the blob of that invocation, which is not the one cached before.
C2_RecompileAfterChange ==
    [][(lastOp' = "Compile" /\ phase = "changed") =>
          /\ invocations' = invocations + 1
          /\ outcome' = "returned" =>
                /\ ret' = invocations'
                /\ ret' # m_p_cached_byte_code
                /\ m_p_cached_byte_code' = ret']_vars

C2_Witness ==
    /\ lastOp = "Compile"
    /\ prePhase = "changed"
    /\ outcome = "returned"
    /\ invocations = 2
    /\ ret = 2

\* C3: a Compile() whose compiler invocation fails raises and leaves the
\* configuration flag set; the Compile() after a raised one invokes the
\* compiler again and, if it returns, returns the blob of that invocation.
C3_RetryAfterFailure ==
    [][lastOp' = "Compile" =>
          /\ d3d_hr' = "E_FAIL" =>
                /\ outcome' = "raised"
                /\ m_is_config_changed'
          /\ outcome = "raised" =>
                /\ invocations' = invocations + 1
                /\ outcome' = "returned" => ret' = invocations']_vars

C3_Witness ==
    /\ lastOp = "Compile"
    /\ preOutcome = "raised"
    /\ d3d_hr # "none"
    /\ invocations = 2

\* C4: every mutator call leaves the configuration flag set and the cached
\* blob as it was.
C4_MutatorsKeepCache ==
    [][lastOp' = "mutator" =>
          /\ m_is_config_changed'
          /\ m_p_cached_byte_code' = m_p_cached_byte_code]_vars

C4_Witness ==
    /\ lastOp = "mutator"
    /\ phase = "changed"
    /\ m_is_config_changed
    /\ m_p_cached_byte_code # NULL

\* C5: whenever AddMacro or DeleteMacro was called since the last Compile()
\* (the point where the macro array is rebuilt), the macro flag is set.
C5_MacroFlagTracksMutation == macroMutated => m_is_macro_changed

\* C6: a Compile() that follows a macro mutation, with macros present,
\* leaves a macro array of m_macros.size() + 1 entries ending in the
\* sentinel.
C6_ProjectedArraySize ==
    [][(lastOp' = "Compile" /\ macroMutated /\ m_macros # <<>>) =>
          /\ Len(m_shader_macros') = Len(m_macros') + 1
          /\ m_shader_macros'[Len(m_shader_macros')] = Sentinel]_vars

\* C7: after N macros with distinct names were added, one of them deleted
\* by name and Compile() called, the macro array holds N - 1 entries
\* followed by the sentinel.
C7_DeleteRoundTrip ==
    rt = "compiled" =>
        /\ Len(m_shader_macros) = rtN
        /\ m_shader_macros[rtN] = Sentinel
        /\ \A i \in 1..(rtN - 1) : m_shader_macros[i] # Sentinel

\* C8: DeleteMacro(name) leaves no macro called name and keeps the other
\* macros in their order.
C8_DeleteRemovesMatches ==
    [][\A name \in MacroNames :
          DeleteMacro(name) =>
              /\ name \notin MacroNamesOf(m_macros')
              /\ m_macros' = SelectSeq(m_macros, LAMBDA x : x.m_name # name)]_vars

\* C9: the cached blob is non-null exactly when a Compile() succeeded since
\* the configuration flag was last set, that is exactly when it is clear.
C9_CacheValidIffClean ==
    (m_p_cached_byte_code # NULL) <=> ~m_is_config_changed

\* C9 amended: the cached blob is non-null whenever the configuration flag
\* is clear, and null after a Compile() that raised.
C9_CacheValidWhenClean ==
    /\ ~m_is_config_changed => m_p_cached_byte_code # NULL
    /\ outcome = "raised" => m_p_cached_byte_code = NULL

C9_Witness ==
    /\ lastOp = "Compile"
    /\ ~m_is_config_changed
    /\ m_p_cached_byte_code # NULL
    /\ invocations = 2

\* C10: a new object has both flags set and no blob, and its first
\* Compile(), when the compiler succeeds, invokes the compiler once, returns
\* the blob it produced, caches it and clears the configuration flag.
C10_FirstCompile ==
    /\ lastOp = "ctor" =>
          /\ m_is_macro_changed
          /\ m_is_config_changed
          /\ m_p_cached_byte_code = NULL
    /\ (lastOp = "Compile" /\ preOutcome = "none" /\ d3d_hr # "E_FAIL") =>
          /\ invocations = 1
          /\ d3d_hr = "S_OK"
          /\ outcome = "returned"
          /\ ret = invocations
          /\ ret # NULL
          /\ m_p_cached_byte_code = ret
          /\ ~m_is_config_changed

C10_Witness ==
    /\ lastOp = "Compile"
    /\ preOutcome = "none"
    /\ outcome = "returned"
    /\ invocations = 1
    /\ ret = 1
    /\ m_p_cached_byte_code = 1
    /\ ~m_is_config_changed

\* C11: the status GetHResult returns on the exception Compile() threw is
\* the failing status D3DCompile returned.
C11_ErrorCarriesStatus ==
    (lastOp = "Compile" /\ outcome = "raised") =>
        /\ thrown # <<>>
        /\ GetHResult(thrown[1].base) = d3d_hr

\* The diagnostic text of an error blob: its buffer without the terminator
\* that ends it.
DiagnosticText(blob) == SubSeq(blob[1], 1, Len(blob[1]) - 1)

\* C12: the message of the exception Compile() threw is the fixed prefix
\* followed by the diagnostic text when the compiler left an error blob,
\* and the fixed prefix alone when it left none.
C12_MessageComposition ==
    (lastOp = "Compile" /\ outcome = "raised") =>
        /\ thrown # <<>>
        /\ what(thrown[1]) =
              IF diag # <<>>
              THEN <<"Compile DX shader failed.">> \o DiagnosticText(diag)
              ELSE <<"Compile DX shader failed.">>

C12_Witness ==
    /\ lastOp = "Compile"
    /\ outcome = "raised"
    /\ diag # <<>>
    /\ what(thrown[1]) =
          <<"Compile DX shader failed.", "syntax", " ", "error">>

\* C13: every Compile() call, returning or raising, leaves the macro flag
\* clear, and with no macros it leaves the macro array as it was.
C13_MacroFlagCleared ==
    [][lastOp' = "Compile" =>
          /\ ~m_is_macro_changed'
          /\ m_macros = <<>> => m_shader_macros' = m_shader_macros]_vars

C13_Witness ==
    /\ lastOp = "Compile"
    /\ preOutcome = "none"
    /\ outcome = "raised"
    /\ m_macros # <<>>
    /\ ~m_is_macro_changed

\* C14: in every Compile() that invokes the compiler, the macro argument is
\* null when there are no macros, and otherwise an array whose entry i has
\* the name and definition of macro i, followed by the sentinel.
C14_CompilerSeesCurrentMacros ==
    (lastOp = "Compile" /\ d3d_hr # "none") =>
        /\ macro_arg # <<>>
        /\ IF m_macros = <<>>
           THEN macro_arg[1].null
           ELSE /\ ~macro_arg[1].null
                /\ Len(macro_arg[1].entries) = Len(m_macros) + 1
                /\ \A i \in 1..Len(m_macros) :
                      /\ macro_arg[1].entries[i].Name = <<m_macros[i].m_name>>
                      /\ macro_arg[1].entries[i].Definition =
                            <<m_macros[i].m_definition>>
                /\ macro_arg[1].entries[Len(m_macros) + 1] = Sentinel

\* C15: a call of an accessor changes no field of the object: not the
\* flags, not the configuration, not the macro array, not the cached blob.
C15_AccessorsReadOnly ==
    [][lastOp' = "accessor" => UNCHANGED fields]_vars

\* C16: whenever the configuration flag is clear, the macro flag is clear.
C16_NoCleanConfigDirtyMacros ==
    ~m_is_config_changed => ~m_is_macro_changed

C16_Witness ==
    /\ lastOp = "Compile"
    /\ outcome = "returned"
    /\ prePhase = "changed"
    /\ m_macros # <<>>
    /\ ~m_is_config_changed
    /\ ~m_is_macro_changed

=============================================================================
